---- MODULE Spec2Model ----
(***************************************************************************)
(* Model of freqtrade/data/converter/orderflow.py: the order-flow          *)
(* aggregation of public trades into candles, with its result cache.       *)
(*                                                                         *)
(* Timestamps are integers (ticks); a candle of the timeframe covers       *)
(* cfg.timeframe consecutive ticks.  Prices and amounts are integers       *)
(* (multiples of the smallest price / amount unit).  A pandas cell is      *)
(* modelled as a sequence: <<>> is NaN, <<v>> is the value v.  A row of     *)
(* the interval table is [date, volume, f]: volume stands for the OHLCV    *)
(* columns, f holds the added columns.                                     *)
(***************************************************************************)
EXTENDS Integers, Sequences, FiniteSets, TLC

VARIABLES
    cfg,        \* config (config["runmode"], config["timeframe"], config["orderflow"])
    cache,      \* cached_grouped_trades: OrderedDict, as a sequence in insertion order
    indf,       \* the interval table as passed to the running / last call
    intrades,   \* the trade table as passed to the running / last call
    dataframe,  \* the interval table the call mutates in place
    wtrades,    \* trades after the max_candles slice (local `trades`, line 101)
    pending,    \* group keys the for loop of line 108 has not visited yet
    pc,         \* "idle" | "loop" | "returned" | "raised"
    result,     \* outcome of the running / last call
    lastOp,     \* what the last step did (history)
    computed,   \* keys whose fields were computed and cached by some call (history)
    prevOut,    \* output fields of the previous call when this call repeats its inputs
    fnIn,       \* input of the pure function under check
    fnOut       \* its output

vars == <<cfg, cache, indf, intrades, dataframe, wtrades, pending, pc, result,
          lastOp, computed, prevOut, fnIn, fnOut>>

mainvars == <<cfg, cache, indf, intrades, dataframe, wtrades, pending, pc, result,
              lastOp, computed, prevOut>>

----------------------------------------------------------------------------
(* Bounds *)

NumCandles == 2
MaxCacheSize == 2
MaxCandlesCfg == 2
MaxFnTrades == 3
MaxBins == 4
MaxRange == 3

----------------------------------------------------------------------------
(* Cells and small helpers *)

NaN == <<>>
Val(v) == <<v>>

RECURSIVE SortedSeq(_)
SortedSeq(S) ==
    IF S = {} THEN <<>>
    ELSE LET m == CHOOSE x \in S : \A y \in S : x <= y
         IN <<m>> \o SortedSeq(S \ {m})

RECURSIVE SumSeq(_)
SumSeq(s) == IF s = <<>> THEN 0 ELSE Head(s) + SumSeq(Tail(s))

Range(s) == {s[i] : i \in 1..Len(s)}

----------------------------------------------------------------------------
(* ADDED_COLUMNS and their initial value *)

ADDED_COLUMNS ==
    {"trades", "orderflow", "imbalances", "stacked_imbalances_bid",
     "stacked_imbalances_ask", "max_delta", "min_delta", "bid", "ask",
     "delta", "total_trades"}

UnsetFields == [c \in ADDED_COLUMNS |-> NaN]

\* _init_dataframe_with_trades_columns: every added column of every row := NaN
InitColumns(df) == [i \in 1..Len(df) |-> [df[i] EXCEPT !.f = UnsetFields]]

----------------------------------------------------------------------------
(* Candle boundaries *)

\* df["datetime"].dt.floor(timeframe_frequency)
CandleStart(ts, tf) == ts - (ts % tf)

\* timeframe_to_next_date(timeframe, candle_start)
CandleNext(cs, tf) == CandleStart(cs, tf) + tf

----------------------------------------------------------------------------
(* Side classification: side.str.contains("sell") / ("buy") *)

ContainsSell(side) == side \in {"sell"}
ContainsBuy(side) == side \in {"buy"}

BidAmount(t) == IF ContainsSell(t.side) THEN t.amount ELSE 0
AskAmount(t) == IF ContainsBuy(t.side) THEN t.amount ELSE 0
BidCount(t) == IF ContainsSell(t.side) THEN 1 ELSE 0
AskCount(t) == IF ContainsBuy(t.side) THEN 1 ELSE 0

----------------------------------------------------------------------------
(* trades_to_volumeprofile_with_total_delta_bid_ask *)

\* (price / scale).round() * scale, numpy rounds half to even
RoundToScale(price, scale) ==
    LET q == price \div scale
        r == price % scale
    IN IF 2 * r < scale THEN q * scale
       ELSE IF 2 * r > scale THEN (q + 1) * scale
       ELSE IF q % 2 = 0 THEN q * scale ELSE (q + 1) * scale

\* the per-trade columns of lines 211-216
TradeColumns(t, scale) ==
    [bid_amount |-> BidAmount(t), ask_amount |-> AskAmount(t),
     bid |-> BidCount(t), ask |-> AskCount(t),
     price |-> RoundToScale(t.price, scale)]

\* groupby("price").sum() of one column, for the bin p
BinSum(rows, p, col) ==
    SumSeq([i \in 1..Len(rows) |-> IF rows[i].price = p THEN rows[i][col] ELSE 0])

trades_to_volumeprofile(trades, scale) ==
    LET df == [i \in 1..Len(trades) |-> TradeColumns(trades[i], scale)]
        prices == SortedSeq({df[i].price : i \in 1..Len(df)})
    IN [k \in 1..Len(prices) |->
          LET p == prices[k]
              ba == BinSum(df, p, "bid_amount")
              aa == BinSum(df, p, "ask_amount")
              b == BinSum(df, p, "bid")
              a == BinSum(df, p, "ask")
          IN [price |-> p, bid_amount |-> ba, ask_amount |-> aa, bid |-> b, ask |-> a,
              delta |-> aa - ba, total_volume |-> aa + ba, total_trades |-> a + b]]

----------------------------------------------------------------------------
(* trades_orderflow_to_imbalances *)

\* (x / y) > ratio in float arithmetic on cells: a NaN operand (the shifted
\* ask of the last bin) and 0/0 give NaN, which compares False; x/0 is inf for x > 0
QuotientGreater(x, y, ratio) ==
    IF x = NaN \/ y = NaN THEN FALSE
    ELSE IF y[1] = 0 THEN x[1] > 0
    ELSE x[1] > ratio * y[1]

trades_orderflow_to_imbalances(df, imbalance_ratio, imbalance_volume) ==
    [i \in 1..Len(df) |->
       LET bid == Val(df[i].bid)
           ask == IF i < Len(df) THEN Val(df[i + 1].ask) ELSE NaN
           bid_imbalance == QuotientGreater(bid, ask, imbalance_ratio)
           ask_imbalance == QuotientGreater(ask, bid, imbalance_ratio)
       IN [price |-> df[i].price,
           bid_imbalance |-> IF df[i].total_volume < imbalance_volume
                             THEN FALSE ELSE bid_imbalance,
           ask_imbalance |-> IF df[i].total_volume < imbalance_volume
                             THEN FALSE ELSE ask_imbalance]]

----------------------------------------------------------------------------
(* stacked_imbalance *)

\* int_series * (cumcount within runs of equal values + 1)
RECURSIVE Stacked(_, _)
Stacked(flags, i) ==
    IF i = 0 THEN 0
    ELSE IF flags[i] THEN Stacked(flags, i - 1) + 1 ELSE 0

stacked_imbalance(df, label, stacked_imbalance_range, should_reverse) ==
    LET flags == [i \in 1..Len(df) |->
                    IF label = "bid" THEN df[i].bid_imbalance ELSE df[i].ask_imbalance]
        idxs == {i \in 1..Len(df) : Stacked(flags, i) >= stacked_imbalance_range}
    IN IF idxs = {} THEN NaN
       ELSE LET idx == IF ~should_reverse
                       THEN CHOOSE i \in idxs : \A j \in idxs : i <= j
                       ELSE CHOOSE i \in idxs : \A j \in idxs : i >= j
            IN Val(df[idx].price)

\* the variant whose ask scan is not reversed
stacked_imbalance_ask_forward(df, stacked_imbalance_range) ==
    stacked_imbalance(df, "ask", stacked_imbalance_range, FALSE)

stacked_imbalance_ask(df, stacked_imbalance_range) ==
    stacked_imbalance(df, "ask", stacked_imbalance_range, TRUE)

stacked_imbalance_bid(df, stacked_imbalance_range) ==
    stacked_imbalance(df, "bid", stacked_imbalance_range, FALSE)

----------------------------------------------------------------------------
(* populate_dataframe_with_trades: the per-group computation, lines 132-177 *)

RECURSIVE CumSum(_, _)
CumSum(s, i) == IF i = 0 THEN 0 ELSE CumSum(s, i - 1) + s[i]

SeqMin(s) == CHOOSE x \in Range(s) : \A y \in Range(s) : x <= y
SeqMax(s) == CHOOSE x \in Range(s) : \A y \in Range(s) : x >= y

\* a non-numeric amount makes the column arithmetic of line 222 raise
Malformed(group) == \E i \in 1..Len(group) : ~group[i].numeric

ComputeFields(group, oflow) ==
    LET orderflow == trades_to_volumeprofile(group, oflow.scale)
        imbalances == trades_orderflow_to_imbalances(
                          orderflow, oflow.imbalance_ratio, oflow.imbalance_volume)
        bid == [i \in 1..Len(group) |-> BidAmount(group[i])]
        ask == [i \in 1..Len(group) |-> AskAmount(group[i])]
        deltas_per_trade == [i \in 1..Len(group) |-> ask[i] - bid[i]]
        cumsum == [i \in 1..Len(group) |-> CumSum(deltas_per_trade, i)]
    IN [trades |-> Val(group),
        orderflow |-> Val(orderflow),
        imbalances |-> Val(imbalances),
        stacked_imbalances_bid |->
            stacked_imbalance_bid(imbalances, oflow.stacked_imbalance_range),
        stacked_imbalances_ask |->
            stacked_imbalance_ask(imbalances, oflow.stacked_imbalance_range),
        max_delta |-> Val(SeqMax(cumsum)),
        min_delta |-> Val(SeqMin(cumsum)),
        bid |-> Val(SumSeq(bid)),
        ask |-> Val(SumSeq(ask)),
        delta |-> Val(SumSeq(ask) - SumSeq(bid)),
        total_trades |-> Val(Len(group))]

----------------------------------------------------------------------------
(* The cache: an OrderedDict keyed by (candle_start, candle_next) *)

CacheKeys(c) == {c[i].key : i \in 1..Len(c)}

CacheGet(c, k) == c[CHOOSE i \in 1..Len(c) : c[i].key = k].entry

\* c[k] = v for a key that is not in c: appended at the end
CacheInsert(c, k, v) == Append(c, [key |-> k, entry |-> v])

\* the variant popitem() with its default last=True
PopNewest(c) == SubSeq(c, 1, Len(c) - 1)

\* popitem(last=False)
PopOldest(c) == Tail(c)

\* the variant that forgets the dry-run mode
IsLiveOnly(runmode) == runmode \in {"live"}

IsLive(runmode) == runmode \in {"dry_run", "live"}

\* the variant that maintains the cache size in every run mode
MaintainCacheSizeAllModes(c, config) ==
    IF Len(c) > config.orderflow.cache_size THEN Tail(c) ELSE c

\* lines 185-189
MaintainCacheSize(c, config) ==
    IF IsLive(config.runmode) /\ Len(c) > config.orderflow.cache_size
    THEN PopOldest(c) ELSE c

----------------------------------------------------------------------------
(* Grouping *)

\* dataframe.tail(max_candles): the last max_candles rows
TailRows(df, n) == SubSeq(df, IF n >= Len(df) THEN 1 ELSE Len(df) - n + 1, Len(df))

\* the variant with > for >=
SliceTradesStrict(trades, start_date, tf) ==
    SelectSeq(trades, LAMBDA t : CandleStart(t.date, tf) > start_date)

\* trades.loc[trades["candle_start"] >= start_date]
SliceTrades(trades, start_date, tf) ==
    SelectSeq(trades, LAMBDA t : CandleStart(t.date, tf) >= start_date)

\* the keys of trades.groupby("candle_start"), ascending
GroupKeys(trades, tf) ==
    SortedSeq({CandleStart(trades[i].date, tf) : i \in 1..Len(trades)})

GroupOf(trades, cs, tf) == SelectSeq(trades, LAMBDA t : CandleStart(t.date, tf) = cs)

\* is_between = candle_start == dataframe["date"]
RowsAt(df, cs) == {i \in 1..Len(df) : df[i].date = cs}

----------------------------------------------------------------------------
(* Inputs of a call *)

RunModes == {"live", "dry_run", "backtest"}

\* config["timeframe"] and config["orderflow"] without cache_size and max_candles
BaseConfig ==
    [timeframe |-> 2, scale |-> 2, imbalance_ratio |-> 1, imbalance_volume |-> 2,
     stacked_imbalance_range |-> 1]

Timeframe == BaseConfig.timeframe

Configs ==
    [runmode : RunModes,
     timeframe : {Timeframe},
     orderflow : {[scale |-> BaseConfig.scale,
                   imbalance_ratio |-> BaseConfig.imbalance_ratio,
                   imbalance_volume |-> BaseConfig.imbalance_volume,
                   stacked_imbalance_range |-> BaseConfig.stacked_imbalance_range,
                   cache_size |-> cs, max_candles |-> mc] :
                      cs \in 0..MaxCacheSize, mc \in 0..MaxCandlesCfg}]

\* the public trades of the market in arrival order: the oldest candle saw two
\* trades, every later candle one, and the newest trade of the market carries an
\* amount that is not a number
LastTick == NumCandles * Timeframe - 1

TapeTicks == SortedSeq({0, 1} \cup {c * Timeframe : c \in 0..(NumCandles - 1)} \cup {LastTick})

TradeAt(tick) ==
    [date |-> tick,
     price |-> 10 + (tick % 3) * 3,
     amount |-> 1 + (tick % 2),
     side |-> IF tick % 3 = 2 THEN "sell" ELSE "buy",
     numeric |-> tick < LastTick]

Tape == [i \in 1..Len(TapeTicks) |-> TradeAt(TapeTicks[i])]

\* a trade table is a contiguous part of the tape
TradeTables == {SubSeq(Tape, lo, hi) : lo \in 1..Len(Tape), hi \in 1..Len(Tape)}

\* the volume column of a candle: the amount traded in it, as far as the trade
\* table shows
CandleVolume(trades, c) ==
    SumSeq([i \in 1..Len(trades) |->
              IF CandleStart(trades[i].date, Timeframe) = c * Timeframe /\ trades[i].numeric
              THEN trades[i].amount ELSE 0])

Row(c, volume) == [date |-> c * Timeframe, volume |-> volume, f |-> UnsetFields]

\* an interval table holds consecutive candles, ascending by date
IntervalTables(trades) ==
    {[i \in 1..(r[2] - r[1] + 1) |-> Row(r[1] + i - 1, CandleVolume(trades, r[1] + i - 1))] :
        r \in {q \in (0..(NumCandles - 1)) \X (0..(NumCandles - 1)) : q[1] <= q[2]}}

\* the (interval table, trade table) pairs a call may be given
CallInputs ==
    UNION {{[dataframe |-> df, trades |-> trades] : df \in IntervalTables(trades)} :
              trades \in TradeTables}

NoOp == [op |-> "none", key |-> NaN, evicted |-> FALSE]
Op(o, k, e) == [op |-> o, key |-> k, evicted |-> e]

FieldsOf(df) == [i \in 1..Len(df) |-> df[i].f]

----------------------------------------------------------------------------
(* populate_dataframe_with_trades *)

\* the variant that lets the original exception escape, not wrapped
ReRaise(e) == [kind |-> e, cause |-> "none"]

\* except Exception as e: raise DependencyException(e)
Raise(e) == [kind |-> "DependencyException", cause |-> e]

Returned == [kind |-> "ok", cause |-> "none"]
Running == [kind |-> "none", cause |-> "none"]

InitMain ==
    /\ cache = <<>>
    /\ indf = <<>>
    /\ intrades = <<>>
    /\ dataframe = <<>>
    /\ wtrades = <<>>
    /\ pending = <<>>
    /\ pc = "idle"
    /\ result = Running
    /\ lastOp = NoOp
    /\ computed = {}
    /\ prevOut = NaN

Init ==
    /\ cfg \in Configs
    /\ InitMain
    /\ fnIn = <<>>
    /\ fnOut = NaN

\* lines 84-105: initialise the columns, return early on an empty trade table,
\* else slice the trades to the last max_candles candles and group them
Begin(df, trades) ==
    /\ indf' = df
    /\ intrades' = trades
    /\ dataframe' = InitColumns(df)
    /\ UNCHANGED <<cfg, cache, computed, fnIn, fnOut>>
    /\ IF trades = <<>>
       THEN /\ pc' = "returned"
            /\ result' = Returned
            /\ wtrades' = <<>>
            /\ pending' = <<>>
            /\ lastOp' = Op("empty", NaN, FALSE)
       ELSE LET max_candles == cfg.orderflow.max_candles
                tail == TailRows(df, max_candles)
            IN IF tail = <<>>
               THEN \* .iat[0] on an empty selection
                    /\ pc' = "raised"
                    /\ result' = Raise("IndexError")
                    /\ wtrades' = <<>>
                    /\ pending' = <<>>
                    /\ lastOp' = Op("error", NaN, FALSE)
               ELSE LET start_date == tail[1].date
                        sliced == SliceTrades(trades, start_date, cfg.timeframe)
                    IN /\ pc' = "loop"
                       /\ result' = Running
                       /\ wtrades' = sliced
                       /\ pending' = GroupKeys(sliced, cfg.timeframe)
                       /\ lastOp' = Op("start", NaN, FALSE)

\* a call with a fresh interval table and trade table
StartCall(df, trades) ==
    /\ pc = "idle"
    /\ prevOut' = NaN
    /\ Begin(df, trades)

\* the next call is given the interval table, the trade table and the cache of the
\* call that just returned
RepeatCall ==
    /\ pc = "returned"
    /\ prevOut' = Val(FieldsOf(dataframe))
    /\ Begin(indf, intrades)

\* the caller is done with the outcome of the call
Release ==
    /\ pc \in {"returned", "raised"}
    /\ pc' = "idle"
    /\ indf' = <<>>
    /\ intrades' = <<>>
    /\ dataframe' = <<>>
    /\ wtrades' = <<>>
    /\ pending' = <<>>
    /\ result' = Running
    /\ lastOp' = Op("release", NaN, FALSE)
    /\ prevOut' = NaN
    /\ UNCHANGED <<cfg, cache, computed, fnIn, fnOut>>

\* the columns a cache hit assigns: every column of the cached row (line 123)
ApplyCacheEntry(row, cache_entry) == cache_entry

\* one iteration of the for loop, lines 108-191
ProcessGroup ==
    /\ pc = "loop"
    /\ pending # <<>>
    /\ LET candle_start == Head(pending)
           trades_grouped_df == GroupOf(wtrades, candle_start, cfg.timeframe)
           is_between == RowsAt(dataframe, candle_start)
           candle_next == CandleNext(candle_start, cfg.timeframe)
           key == <<candle_start, candle_next>>
       IN IF is_between = {}
          THEN /\ lastOp' = Op("skip", Val(key), FALSE)
               /\ pending' = Tail(pending)
               /\ UNCHANGED <<cache, dataframe, pc, result, computed>>
          ELSE IF key \in CacheKeys(cache)
          THEN /\ dataframe' = [i \in 1..Len(dataframe) |->
                                  IF i \in is_between
                                  THEN ApplyCacheEntry(dataframe[i], CacheGet(cache, key))
                                  ELSE dataframe[i]]
               /\ lastOp' = Op("hit", Val(key), FALSE)
               /\ pending' = Tail(pending)
               /\ UNCHANGED <<cache, pc, result, computed>>
          ELSE LET index == CHOOSE i \in is_between : \A j \in is_between : i <= j
               IN IF Malformed(trades_grouped_df)
                  THEN /\ dataframe' = [dataframe EXCEPT
                                          ![index].f.trades = Val(trades_grouped_df)]
                       /\ pc' = "raised"
                       /\ result' = Raise("TypeError")
                       /\ lastOp' = Op("error", Val(key), FALSE)
                       /\ UNCHANGED <<cache, pending, computed>>
                  ELSE LET row == [dataframe[index] EXCEPT
                                     !.f = ComputeFields(trades_grouped_df, cfg.orderflow)]
                           inserted == CacheInsert(cache, key, row)
                       IN /\ dataframe' = [dataframe EXCEPT ![index] = row]
                          /\ cache' = MaintainCacheSize(inserted, cfg)
                          /\ lastOp' = Op("miss", Val(key), cache' # inserted)
                          /\ computed' = computed \cup {key}
                          /\ pending' = Tail(pending)
                          /\ UNCHANGED <<pc, result>>
    /\ UNCHANGED <<cfg, indf, intrades, wtrades, prevOut, fnIn, fnOut>>

\* line 198
Return ==
    /\ pc = "loop"
    /\ pending = <<>>
    /\ pc' = "returned"
    /\ result' = Returned
    /\ lastOp' = Op("return", NaN, FALSE)
    /\ UNCHANGED <<cfg, cache, indf, intrades, dataframe, wtrades, pending, computed,
                   prevOut, fnIn, fnOut>>

Next ==
    \/ \E in \in CallInputs : StartCall(in.dataframe, in.trades)
    \/ RepeatCall
    \/ ProcessGroup
    \/ Return
    \/ Release

Spec == Init /\ [][Next]_vars

----------------------------------------------------------------------------
(* The volume profile and its imbalances on their own: one group of trades *)

FnTrades ==
    [date : {0}, price : {10, 11, 13}, amount : {1, 3}, side : {"buy", "sell"},
     numeric : {TRUE}]

FnTradeLists == UNION {[1..n -> FnTrades] : n \in 1..MaxFnTrades}

FnConfig(scale, ratio, volume, range) ==
    [runmode |-> "backtest",
     timeframe |-> Timeframe,
     orderflow |-> [scale |-> scale, imbalance_ratio |-> ratio,
                    imbalance_volume |-> volume, stacked_imbalance_range |-> range,
                    cache_size |-> 1, max_candles |-> 1]]

InitImbalances ==
    /\ cfg \in {FnConfig(scale, ratio, volume, 1) :
                   scale \in {1, 2}, ratio \in {1, 2}, volume \in {0, 4}}
    /\ InitMain
    /\ fnIn \in FnTradeLists
    /\ fnOut = NaN

\* lines 137-147
ApplyImbalances ==
    /\ fnOut = NaN
    /\ LET orderflow == trades_to_volumeprofile(fnIn, cfg.orderflow.scale)
       IN fnOut' = Val([orderflow |-> orderflow,
                        imbalances |-> trades_orderflow_to_imbalances(
                                           orderflow, cfg.orderflow.imbalance_ratio,
                                           cfg.orderflow.imbalance_volume)])
    /\ UNCHANGED <<mainvars, fnIn>>

SpecImbalances == InitImbalances /\ [][ApplyImbalances]_vars

----------------------------------------------------------------------------
(* The stacked-imbalance scan on its own: one imbalance table *)

\* imbalance tables of up to MaxBins bins, prices ascending
ImbalanceTables ==
    UNION {{[i \in 1..n |-> [price |-> 10 + 2 * i, bid_imbalance |-> fl[i][1],
                             ask_imbalance |-> fl[i][2]]] :
               fl \in [1..n -> BOOLEAN \X BOOLEAN]} : n \in 0..MaxBins}

InitStacked ==
    /\ cfg \in {FnConfig(1, 1, 0, range) : range \in 0..MaxRange}
    /\ InitMain
    /\ fnIn \in ImbalanceTables
    /\ fnOut = NaN

\* lines 150-157
ApplyStacked ==
    /\ fnOut = NaN
    /\ fnOut' = Val([bid |-> stacked_imbalance_bid(
                                 fnIn, cfg.orderflow.stacked_imbalance_range),
                     ask |-> stacked_imbalance_ask(
                                 fnIn, cfg.orderflow.stacked_imbalance_range)])
    /\ UNCHANGED <<mainvars, fnIn>>

SpecStacked == InitStacked /\ [][ApplyStacked]_vars

----------------------------------------------------------------------------
(* Claims *)

\* the run mode is live or simulated-live
LiveOrDryRun == cfg.runmode \in {"live", "dry_run"}

KeysOf(c) == [i \in 1..Len(c) |-> c[i].key]

IsPrefix(a, b) == Len(a) <= Len(b) /\ SubSeq(b, 1, Len(a)) = a

\* the group the loop is about to visit, and whether it has a row
AtGroup == pc = "loop" /\ pending # <<>>
NextKey == <<Head(pending), CandleNext(Head(pending), cfg.timeframe)>>
NextHasRow == RowsAt(dataframe, Head(pending)) # {}
NextGroup == GroupOf(wtrades, Head(pending), cfg.timeframe)

\* C1: an insertion that makes the cache exceed cache_size in live or dry-run mode
\* removes exactly one entry, the earliest inserted one, and keeps the others in
\* their order; a cache hit leaves the cache as it is; in every other run mode no
\* entry is ever removed.
C1_EvictOldestInserted ==
    [][/\ lastOp'.op = "miss" =>
            LET grown == KeysOf(cache) \o <<lastOp'.key[1]>>
            IN IF LiveOrDryRun /\ Len(grown) > cfg.orderflow.cache_size
               THEN KeysOf(cache') = Tail(grown)
               ELSE KeysOf(cache') = grown
       /\ lastOp'.op # "miss" => cache' = cache
       /\ ~LiveOrDryRun => IsPrefix(cache, cache')]_vars

C1_Witness ==
    /\ lastOp.op = "miss"
    /\ lastOp.evicted
    /\ LiveOrDryRun
    /\ cache # <<>>
    /\ cache[Len(cache)].key = lastOp.key[1]

\* C2 as stated: a group whose key was computed and cached by an earlier call and
\* that has a row in the current call is served from the cache, in every run mode
\* and for every cache_size and max_candles.
C2_AlwaysServedFromCache ==
    [][(AtGroup /\ NextHasRow /\ NextKey \in computed) => lastOp'.op = "hit"]_vars

\* C2 amended: such a group is served from the cache in every run mode other than
\* live and dry-run, and in those two modes whenever its entry is still in the cache.
C2_ServedUnlessEvicted ==
    [][(/\ AtGroup /\ NextHasRow /\ NextKey \in computed
        /\ (~LiveOrDryRun \/ NextKey \in CacheKeys(cache)))
       => (lastOp'.op = "hit" /\ cache' = cache /\ computed' = computed)]_vars

C2_Witness ==
    /\ lastOp.op = "hit"
    /\ lastOp.key[1] \in computed
    /\ ~LiveOrDryRun
    /\ Len(cache) > cfg.orderflow.cache_size

\* C3: a call that repeats the inputs of the call before it, with the cache that
\* call returned, produces the same added fields on every row.
C3_RepeatedCallSameFields ==
    (pc = "returned" /\ prevOut # NaN) => FieldsOf(dataframe) = prevOut[1]

\* rows of the interval table that received a trade of the trade table
ReceivedTrade(i) ==
    \E k \in 1..Len(intrades) : CandleStart(intrades[k].date, cfg.timeframe) = indf[i].date

InWindow(i) == i > Len(indf) - cfg.orderflow.max_candles

StackedColumns == {"stacked_imbalances_bid", "stacked_imbalances_ask"}

\* C4 as stated: after a successful call with a non-empty trade table every row
\* that received a trade has every added field set.
C4_EveryRowWithTradesPopulated ==
    (pc = "returned" /\ intrades # <<>>) =>
        \A i \in 1..Len(dataframe) :
            ReceivedTrade(i) => \A c \in ADDED_COLUMNS : dataframe[i].f[c] # NaN

\* C4 amended: after a successful call with a non-empty trade table every row among
\* the last max_candles rows that received a trade has every added field set other
\* than the two stacked prices (NaN when no run is long enough); older rows and
\* rows without trades keep every added field unset.
C4_WindowRowsWithTradesPopulated ==
    (pc = "returned" /\ intrades # <<>>) =>
        \A i \in 1..Len(dataframe) :
            IF ReceivedTrade(i) /\ InWindow(i)
            THEN \A c \in ADDED_COLUMNS \ StackedColumns : dataframe[i].f[c] # NaN
            ELSE dataframe[i].f = UnsetFields

C4_Witness ==
    /\ pc = "returned"
    /\ intrades # <<>>
    /\ \E i \in 1..Len(dataframe) :
          /\ ReceivedTrade(i) /\ InWindow(i)
          /\ dataframe[i].f.total_trades # NaN
          /\ dataframe[i].f.stacked_imbalances_bid = NaN
    /\ \E i \in 1..Len(dataframe) : ReceivedTrade(i) /\ ~InWindow(i)

\* C5: for every bin i with nonzero denominators, bid_imbalance[i] holds exactly
\* when i is not the top bin, total_volume[i] >= imbalance_volume and
\* bid_amount[i] / ask_amount[i+1] > imbalance_ratio, and ask_imbalance[i] exactly
\* when i is not the top bin, total_volume[i] >= imbalance_volume and
\* ask_amount[i+1] / bid_amount[i] > imbalance_ratio, on summed traded amounts.
C5_ImbalanceOnAmounts ==
    fnOut # NaN =>
        LET of == fnOut[1].orderflow
            im == fnOut[1].imbalances
            ratio == cfg.orderflow.imbalance_ratio
            enough(i) == of[i].total_volume >= cfg.orderflow.imbalance_volume
        IN \A i \in 1..Len(of) :
              IF i = Len(of)
              THEN ~im[i].bid_imbalance /\ ~im[i].ask_imbalance
              ELSE /\ of[i + 1].ask_amount # 0 =>
                        (im[i].bid_imbalance <=>
                            (enough(i) /\ of[i].bid_amount > ratio * of[i + 1].ask_amount))
                   /\ of[i].bid_amount # 0 =>
                        (im[i].ask_imbalance <=>
                            (enough(i) /\ of[i + 1].ask_amount > ratio * of[i].bid_amount))

\* the run of consecutive true values ending at position i has length >= range
RunQualifies(flags, i, range) ==
    \E len \in 0..i :
        /\ len >= range
        /\ \A j \in (i - len + 1)..i : flags[j]

QualifyingPrices(df, flags, range) ==
    {df[i].price : i \in {j \in 1..Len(df) : RunQualifies(flags, j, range)}}

LowestOrNaN(S) == IF S = {} THEN NaN ELSE Val(CHOOSE x \in S : \A y \in S : x <= y)
HighestOrNaN(S) == IF S = {} THEN NaN ELSE Val(CHOOSE x \in S : \A y \in S : x >= y)

\* C6: stacked_imbalance_bid returns the lowest price of a qualifying position,
\* stacked_imbalance_ask the highest, and both NaN when no position qualifies.
C6_StackedLowestBidHighestAsk ==
    fnOut # NaN =>
        LET range == cfg.orderflow.stacked_imbalance_range
            bids == [i \in 1..Len(fnIn) |-> fnIn[i].bid_imbalance]
            asks == [i \in 1..Len(fnIn) |-> fnIn[i].ask_imbalance]
        IN /\ fnOut[1].bid = LowestOrNaN(QualifyingPrices(fnIn, bids, range))
           /\ fnOut[1].ask = HighestOrNaN(QualifyingPrices(fnIn, asks, range))

C6_Witness ==
    /\ fnOut # NaN
    /\ fnOut[1].ask # NaN
    /\ cfg.orderflow.stacked_imbalance_range >= 2
    /\ \E i \in 1..Len(fnIn) : fnIn[i].ask_imbalance /\ fnIn[i].price < fnOut[1].ask[1]
    /\ \E i \in 1..Len(fnIn) : fnIn[i].ask_imbalance /\ fnIn[i].price > fnOut[1].ask[1]
    /\ fnOut[1].bid = NaN

\* C7: in live and dry-run mode the cache never holds more than cache_size
\* entries, after any processed group and when a call returns.
C7_CacheBounded ==
    LiveOrDryRun => Len(cache) <= cfg.orderflow.cache_size

C7_Witness ==
    /\ cfg.runmode = "dry_run"
    /\ lastOp.evicted
    /\ Len(cache) = cfg.orderflow.cache_size

\* C8: an exception ends the call with a DependencyException that wraps the cause;
\* no result is returned; the failing step inserts nothing into the cache and leaves
\* the rows of the groups processed before it as they were.
C8_FailureWrapsAndKeepsWrites ==
    [][/\ (AtGroup /\ NextHasRow /\ NextKey \notin CacheKeys(cache) /\ Malformed(NextGroup))
            => /\ pc' = "raised"
               /\ result'.kind = "DependencyException"
               /\ result'.cause = "TypeError"
               /\ cache' = cache
               /\ \A i \in 1..Len(dataframe) :
                     dataframe[i].date # Head(pending) => dataframe'[i] = dataframe[i]
       /\ pc' = "raised" => (result'.kind = "DependencyException" /\ result'.cause # "none")
       /\ pc = "raised" => (pc' = "idle" /\ cache' = cache)
       /\ result'.kind = "ok" => pc' = "returned"]_vars

C8_Witness ==
    /\ pc = "raised"
    /\ result = [kind |-> "DependencyException", cause |-> "TypeError"]
    /\ cache # <<>>
    /\ \E i \in 1..Len(dataframe) :
          /\ dataframe[i].f.total_trades # NaN
          /\ <<dataframe[i].date, CandleNext(dataframe[i].date, cfg.timeframe)>>
                \in CacheKeys(cache)
    /\ \E i \in 1..Len(dataframe) :
          dataframe[i].f.trades # NaN /\ dataframe[i].f.total_trades = NaN

\* C9: when a call returns, every row that matched a surviving trade group holds
\* the fields computed from that group's trades as supplied to this call.
C9_FieldsFromLatestTrades ==
    pc = "returned" =>
        \A i \in 1..Len(dataframe) :
            LET group == GroupOf(wtrades, dataframe[i].date, cfg.timeframe)
            IN (group # <<>> /\ ~Malformed(group))
                  => dataframe[i].f = ComputeFields(group, cfg.orderflow)

\* C10: a cache hit changes the added fields only: the start timestamp and the
\* OHLCV fields of every row stay as the interval table of this call has them.
C10_CacheHitKeepsOhlcv ==
    [][lastOp'.op = "hit" =>
          \A i \in 1..Len(dataframe) :
              /\ dataframe'[i].date = dataframe[i].date
              /\ dataframe'[i].volume = dataframe[i].volume]_vars

====
